---- MODULE Spec2Model ----
(***************************************************************************)
(* Model of src/src/NoteParser.ts: RefCandidate, ParsedFile and the static *)
(* NoteParser cache (_parsedFiles) with its asynchronous operations.       *)
(*                                                                         *)
(* Text is modelled as a sequence of atoms.  An atom is a maximal run of   *)
(* non-blank characters ("#a", "[[n]]", "x") or a line break; the atoms of *)
(* one line are separated by single blanks, so that character offsets are  *)
(* computed from the atoms' lengths.  The empty string is the empty        *)
(* sequence; the JavaScript value undefined is the sentinel `undefined`.   *)
(***************************************************************************)
EXTENDS Integers, Sequences, FiniteSets, TLC

VARIABLES
    disk,           \* the file system: path -> text, or Missing
    objs,           \* the heap of ParsedFile instances, by allocation order
    _parsedFiles,   \* NoteParser._parsedFiles: path -> index into objs, or NoEntry
    tasks,          \* the calls of search / distinctTags / hydrateCache
    reads,          \* the fs.readFile calls whose callback has not run yet
    cleared,        \* the paths evicted with no updateCacheFor of them, no hydrateCache since
    nEnv,           \* number of file-system changes so far
    nUpdates,       \* number of updateCacheFor calls so far
    nClears,        \* number of clearCacheFor calls so far
    nGets,          \* number of direct parsedFileFor calls so far
    doc,            \* SpecDoc: a stand-alone ParsedFile
    docQuery,       \* SpecDoc: the context word of the last query on doc
    docOut,         \* SpecDoc: what the last operation on doc returned
    docReads        \* SpecLoad: the reads of doc whose callback has not run yet

vars == <<disk, objs, _parsedFiles, tasks, reads, cleared, nEnv, nUpdates, nClears, nGets, doc, docQuery, docOut, docReads>>
cacheVars == <<disk, objs, _parsedFiles, tasks, reads, cleared, nEnv, nUpdates, nClears, nGets>>
docVars == <<doc, docQuery, docOut, docReads>>

(***************************************************************************)
(* Bounds of the model.                                                    *)
(***************************************************************************)
MaxObjs == 3
MaxTasks == 2
MaxReads == 3
MaxEnv == 1
MaxUpdates == 1
MaxClears == 1
MaxGets == 2
MaxDocReads == 2

(***************************************************************************)
(* ContextWordType (./ContextWord) and the values of `data`.               *)
(***************************************************************************)
Tag == "Tag"
WikiLink == "WikiLink"
Null == "Null"
ContextWordType == {Null, WikiLink, Tag}

undefined == <<"<undefined>">>
EmptyString == <<>>

\* JavaScript truthiness of a string | undefined value
Truthy(data) == data # undefined /\ data # EmptyString

\* JavaScript truthiness of a ContextWordType member (a non-empty string)
TruthyType(t) == t \in ContextWordType

(***************************************************************************)
(* The collaborators in NoteWorkspace: the two patterns and the fuzzy      *)
(* note-name equality.                                                     *)
(***************************************************************************)
LineBreaks == {"\n", "\r\n"}
TagAtoms == {"#a", "#A", "#b", "#c"}
LinkAtoms == {"[[n]]", "[[n.md]]", "[[m]]"}

\* character offset of the k-th atom of a line
RECURSIVE Offset(_, _)
Offset(line, k) == IF k = 1 THEN 0 ELSE Offset(line, k - 1) + Len(line[k - 1]) + 1

\* line.matchAll(rx): the matches (index, text) of the atoms in `atoms`, left to right
matchAll(line, atoms) ==
    LET idx == SelectSeq([k \in 1..Len(line) |-> k], LAMBDA k: line[k] \in atoms)
    IN  [i \in 1..Len(idx) |-> [index |-> Offset(line, idx[i]), text |-> line[idx[i]]]]

rxTagNoAnchors(line) == matchAll(line, TagAtoms)
rxWikiLink(line) == matchAll(line, LinkAtoms)

\* the note name a wiki-link text or a query word stands for
NoteName(s) ==
    CASE s \in {"[[n]]", "[[n.md]]", "n", "n.md"} -> "n"
      [] s \in {"[[m]]", "m", "m.md"} -> "m"
      [] OTHER -> s

noteNamesFuzzyMatch(left, right) == NoteName(left) = NoteName(right)

(***************************************************************************)
(* RefCandidate                                                            *)
(***************************************************************************)
RefCandidate(rawText, range, contextWordType) ==
    [rawText |-> rawText, range |-> range, contextWordType |-> contextWordType]

fromMatch(lineNum, match, cwType) ==
    LET s == match.index
        e == s + Len(match.text)
        r == [start |-> [line |-> lineNum, character |-> s],
              end |-> [line |-> lineNum, character |-> e]]
    IN  RefCandidate(match.text, r, cwType)

matchesContextWord_NoSigil(c, contextWord) ==
    IF contextWord.type # c.contextWordType THEN FALSE
    ELSE IF contextWord.type = Tag THEN c.rawText = contextWord.word
    ELSE IF contextWord.type = WikiLink THEN noteNamesFuzzyMatch(c.rawText, contextWord.word)
    ELSE FALSE

matchesContextWord(c, contextWord) ==
    IF contextWord.type # c.contextWordType THEN FALSE
    ELSE IF contextWord.type = Tag THEN c.rawText = "#" \o contextWord.word
    ELSE IF contextWord.type = WikiLink THEN noteNamesFuzzyMatch(c.rawText, contextWord.word)
    ELSE FALSE

(***************************************************************************)
(* ParsedFile                                                              *)
(***************************************************************************)
ParsedFile(fsPath) ==
    [fsPath |-> fsPath, data |-> undefined, refCandidates |-> <<>>, _parsed |-> FALSE]

\* data.split(/\r?\n/)
RECURSIVE split(_)
split(text) ==
    IF \A k \in 1..Len(text) : text[k] \notin LineBreaks THEN <<text>>
    ELSE LET k == CHOOSE i \in 1..Len(text) :
                      text[i] \in LineBreaks /\ \A j \in 1..(i - 1) : text[j] \notin LineBreaks
         IN  <<SubSeq(text, 1, k - 1)>> \o split(SubSeq(text, k + 1, Len(text)))

\* the candidates one line pushes: every tag match, then every wiki-link match
lineCandidates(line, lineNum) ==
    LET tags == rxTagNoAnchors(line)
        links == rxWikiLink(line)
    IN  [i \in 1..Len(tags) |-> fromMatch(lineNum, tags[i], Tag)]
        \o [i \in 1..Len(links) |-> fromMatch(lineNum, links[i], WikiLink)]

RECURSIVE linesCandidates(_, _)
linesCandidates(lines, n) ==
    IF n = 0 THEN <<>>
    ELSE linesCandidates(lines, n - 1) \o lineCandidates(lines[n], n - 1)

\* the body of parseData after its early returns: the rebuilt refCandidates
tokenize(data) == LET lines == split(data) IN linesCandidates(lines, Len(lines))

parseData_NoReset(pf, useCache) ==
    IF pf.data = EmptyString THEN pf
    ELSE IF ~Truthy(pf.data) THEN pf
    ELSE IF useCache /\ pf._parsed THEN pf
    ELSE [pf EXCEPT !.refCandidates = @ \o tokenize(pf.data), !._parsed = TRUE]

parseData_FlagOnEmpty(pf, useCache) ==
    IF pf.data = EmptyString THEN [pf EXCEPT !._parsed = TRUE]
    ELSE IF ~Truthy(pf.data) THEN pf
    ELSE IF useCache /\ pf._parsed THEN pf
    ELSE [pf EXCEPT !.refCandidates = tokenize(pf.data), !._parsed = TRUE]

parseData(pf, useCache) ==
    IF pf.data = EmptyString THEN pf
    ELSE IF ~Truthy(pf.data) THEN pf
    ELSE IF useCache /\ pf._parsed THEN pf
    ELSE [pf EXCEPT !.refCandidates = tokenize(pf.data), !._parsed = TRUE]

fromData(data) == parseData([ParsedFile("NO_PATH") EXCEPT !.data = data], FALSE)

\* a context word; NoContextWord is the null argument of _rawRangesForWord
ContextWord(type, word) == [type |-> type, word |-> word, hasExtension |-> FALSE, range |-> "undefined"]
NoContextWord == [type |-> "null", word |-> "", hasExtension |-> FALSE, range |-> "undefined"]

_rawRangesForWord(pf, contextWord) ==
    IF pf.data = EmptyString THEN <<>>
    ELSE IF ~Truthy(pf.data) THEN <<>>
    ELSE IF contextWord = NoContextWord THEN <<>>
    ELSE IF contextWord.type \notin {Tag, WikiLink} THEN <<>>
    ELSE LET hits == SelectSeq(pf.refCandidates, LAMBDA c: matchesContextWord(c, contextWord))
         IN  [i \in 1..Len(hits) |-> hits[i].range]

\* new vscode.Position / new vscode.Range: a Range orders its two ends
isBefore(p, q) == p.line < q.line \/ (p.line = q.line /\ p.character < q.character)
vscodeRange(r) ==
    LET s == [line |-> r.start.line, character |-> r.start.character]
        e == [line |-> r.end.line, character |-> r.end.character]
    IN  IF isBefore(e, s) THEN [start |-> e, end |-> s] ELSE [start |-> s, end |-> e]

vscodeRangesForWord(pf, contextWord) ==
    LET rs == _rawRangesForWord(pf, contextWord) IN [i \in 1..Len(rs) |-> vscodeRange(rs[i])]

\* Array.from(set): the distinct elements of a sequence, in first-seen order
RECURSIVE distinct(_)
distinct(s) ==
    IF s = <<>> THEN <<>>
    ELSE LET init == distinct(SubSeq(s, 1, Len(s) - 1))
             x == s[Len(s)]
         IN  IF \E i \in 1..Len(init) : init[i] = x THEN init ELSE Append(init, x)

tagSet(pf) ==
    LET tags == SelectSeq(pf.refCandidates, LAMBDA rc: rc.contextWordType = Tag)
    IN  distinct([i \in 1..Len(tags) |-> tags[i].rawText])

(***************************************************************************)
(* The workspace: two note files and the texts they may hold.              *)
(***************************************************************************)
PathOrder == <<"/w/a.md", "/w/b.md">>
Paths == {PathOrder[i] : i \in 1..Len(PathOrder)}
Missing == <<"<missing>">>
FileTexts ==
    { EmptyString,
      <<"#a", "#a", "#b">>,
      <<"#b", "#c">>,
      <<"[[n]]", "#a", "\n", "[[n.md]]", "#b">> }

\* the texts a file is overwritten with
SavedTexts == {EmptyString, <<"[[n]]", "#a", "\n", "[[n.md]]", "#b">>}
InitialDisk == [p \in Paths |-> IF p = PathOrder[1] THEN <<"#a", "#a", "#b">> ELSE <<"#b", "#c">>]

\* NoteWorkspace.noteFiles(): the files that exist, in the workspace's order
noteFiles(d) == SelectSeq(PathOrder, LAMBDA p: d[p] # Missing)

\* the words and kinds a caller searches for
SearchContextWords == {ContextWord(Tag, "b"), ContextWord(WikiLink, "n"), ContextWord(Null, "n")}

Range(s) == {s[i] : i \in 1..Len(s)}

RECURSIVE concat(_)
concat(ss) == IF ss = <<>> THEN <<>> ELSE concat(SubSeq(ss, 1, Len(ss) - 1)) \o ss[Len(ss)]

(***************************************************************************)
(* NoteParser: the table and the synchronous parts of its operations.      *)
(* A store st is [objs, _parsedFiles]; NoEntry is a lookup that finds      *)
(* nothing.                                                                *)
(***************************************************************************)
NoEntry == 0

parsedFileFor_AlwaysNew(st, fsPath) ==
    LET heap == Append(st.objs, ParsedFile(fsPath))
    IN  [objs |-> heap,
         _parsedFiles |-> [st._parsedFiles EXCEPT ![fsPath] = Len(heap)],
         pf |-> Len(heap)]

parsedFileFor(st, fsPath) ==
    LET pf == st._parsedFiles[fsPath]
    IN  IF pf = NoEntry
        THEN LET heap == Append(st.objs, ParsedFile(fsPath))
             IN  [objs |-> heap,
                  _parsedFiles |-> [st._parsedFiles EXCEPT ![fsPath] = Len(heap)],
                  pf |-> Len(heap)]
        ELSE [objs |-> st.objs,
              _parsedFiles |-> [st._parsedFiles EXCEPT ![fsPath] = pf],
              pf |-> pf]

\* files.map((f) => NoteParser.parsedFileFor(f.fsPath)): the store and the instances
RECURSIVE mapParsedFileFor(_, _)
mapParsedFileFor(st, files) ==
    IF files = <<>> THEN [objs |-> st.objs, _parsedFiles |-> st._parsedFiles, pfs |-> <<>>]
    ELSE LET init == mapParsedFileFor(st, SubSeq(files, 1, Len(files) - 1))
             r == parsedFileFor(init, files[Len(files)])
         IN  [objs |-> r.objs, _parsedFiles |-> r._parsedFiles, pfs |-> Append(init.pfs, r.pf)]

readFile_NoReset(pf, useCache) ==
    [pf |-> pf, cached |-> useCache /\ Truthy(pf.data)]

\* readFile up to the point where it returns its promise: whether the cached
\* data is served, and the instance as it is left
readFile(pf, useCache) ==
    IF useCache /\ Truthy(pf.data)
    THEN [pf |-> pf, cached |-> TRUE]
    ELSE [pf |-> [pf EXCEPT !._parsed = FALSE], cached |-> FALSE]

\* the callback of fs.readFile on success
readFileCallback(pf, buffer) == [pf EXCEPT !.data = buffer]

deleteEntry_All(table, fsPath) == [p \in DOMAIN table |-> NoEntry]

\* delete NoteParser._parsedFiles[fsPath]
deleteEntry(table, fsPath) == [table EXCEPT ![fsPath] = NoEntry]

(***************************************************************************)
(* The asynchronous calls.  A task is one call of search, distinctTags or  *)
(* hydrateCache; its pc is "noteFiles" while it awaits the enumeration,    *)
(* "reading" while it awaits Promise.all, then "resolved" or "rejected".   *)
(*   files, pfs : the enumeration and the instances mapped from it         *)
(*   pending    : the positions whose read has not called back             *)
(* and, recorded for the properties only,                                  *)
(*   arg     : the context word as the caller passed it                    *)
(*   settled : the positions in the order their promises settled           *)
(*   failed  : the positions whose read failed                             *)
(*   got     : the text each read delivered                                *)
(*   quiet   : the paths evicted before the call with no updateCacheFor    *)
(*             of them and no hydrateCache called since                    *)
(*   alone   : no other call has run or been pending during this one       *)
(***************************************************************************)
NoResult == <<>>

NewTask(op, useCache, cw, arg, q, al) ==
    [op |-> op, useCache |-> useCache, contextWord |-> cw, arg |-> arg, pc |-> "noteFiles",
     files |-> <<>>, pfs |-> <<>>, pending |-> {}, settled |-> <<>>, failed |-> {},
     got |-> <<>>, quiet |-> q, alone |-> al, result |-> NoResult]

InFlight(t) == t.pc \in {"noteFiles", "reading"}
Idle == reads = <<>> /\ \A i \in 1..Len(tasks) : ~InFlight(tasks[i])

\* pfs.map((pf) => pf.parseData(useCache)) on the heap
RECURSIVE parseAll(_, _, _)
parseAll(heap, pfs, useCache) ==
    IF pfs = <<>> THEN heap
    ELSE LET h == parseAll(heap, SubSeq(pfs, 1, Len(pfs) - 1), useCache)
             o == pfs[Len(pfs)]
         IN  [h EXCEPT ![o] = parseData(h[o], useCache)]

locationsOf(pf, contextWord) ==
    LET rs == vscodeRangesForWord(pf, contextWord)
    IN  [i \in 1..Len(rs) |-> [uri |-> pf.fsPath, range |-> rs[i]]]

searchLocations_AllCached(heap, t) ==
    concat([o \in 1..Len(heap) |-> locationsOf(heap[o], t.contextWord)])

searchLocations_SettleOrder(heap, t) ==
    concat([i \in 1..Len(t.settled) |-> locationsOf(heap[t.pfs[t.settled[i]]], t.contextWord)])

\* search, lines 266-274: the locations, file by file
searchLocations(heap, t) ==
    concat([i \in 1..Len(t.pfs) |-> locationsOf(heap[t.pfs[i]], t.contextWord)])

distinctTagsOf_NoDedupe(heap, t) ==
    concat([i \in 1..Len(t.pfs) |-> tagSet(heap[t.pfs[i]])])

\* distinctTags, lines 195-200
distinctTagsOf(heap, t) ==
    distinct(concat([i \in 1..Len(t.pfs) |-> tagSet(heap[t.pfs[i]])]))

resultOf(heap, t) ==
    CASE t.op = "search" -> searchLocations(heap, t)
      [] t.op = "distinctTags" -> distinctTagsOf(heap, t)
      [] OTHER -> t.pfs

\* Promise.all has resolved: parseData on each instance, then the result
resolveTask(heap, t) ==
    LET h == parseAll(heap, t.pfs, t.useCache)
    IN  [objs |-> h, task |-> [t EXCEPT !.pc = "resolved", !.result = resultOf(h, t)]]

onReadError_Skip(t, idx) ==
    [t EXCEPT !.pending = @ \ {idx}, !.failed = @ \cup {idx}, !.settled = Append(@, idx)]

\* a read of the task failed: Promise.all rejects with the first failure
onReadError(t, idx) ==
    [t EXCEPT !.pending = @ \ {idx}, !.failed = @ \cup {idx}, !.settled = Append(@, idx),
              !.pc = IF @ = "reading" THEN "rejected" ELSE @]

onReadSuccess_NoResolve(t, idx, buffer) ==
    [t EXCEPT !.settled = Append(@, idx), !.got[idx] = buffer]

\* a read of the task succeeded: its promise resolves
onReadSuccess(t, idx, buffer) ==
    [t EXCEPT !.pending = @ \ {idx}, !.settled = Append(@, idx), !.got[idx] = buffer]

(***************************************************************************)
(* Initial state: both files exist, nothing is cached, nothing is running. *)
(***************************************************************************)
NoDoc == ParsedFile("NO_DOC")

Init ==
    /\ disk = InitialDisk
    /\ objs = <<>>
    /\ _parsedFiles = [p \in Paths |-> NoEntry]
    /\ tasks = <<>>
    /\ reads = <<>>
    /\ cleared = {}
    /\ nEnv = 0
    /\ nUpdates = 0
    /\ nClears = 0
    /\ nGets = 0
    /\ doc = NoDoc
    /\ docQuery = NoContextWord
    /\ docOut = NoResult
    /\ docReads = <<>>

\* a call of updateCacheFor(p) (ps = {p}) or hydrateCache (ps = Paths), and any
\* call at all, as the tasks in flight record them
unquiet(ts, ps) == [i \in 1..Len(ts) |-> [ts[i] EXCEPT !.quiet = @ \ ps]]
notAlone(ts) == [i \in 1..Len(ts) |-> [ts[i] EXCEPT !.alone = FALSE]]

(***************************************************************************)
(* The environment: a note file is written, created or deleted.            *)
(***************************************************************************)
WriteFile(p, text) ==
    /\ nEnv < MaxEnv
    /\ text \in SavedTexts
    /\ disk[p] # text
    /\ disk' = [disk EXCEPT ![p] = text]
    /\ nEnv' = nEnv + 1
    /\ UNCHANGED <<objs, _parsedFiles, tasks, reads, cleared, nUpdates, nClears, nGets, docVars>>

DeleteFile(p) ==
    /\ nEnv < MaxEnv
    /\ disk[p] # Missing
    /\ disk' = [disk EXCEPT ![p] = Missing]
    /\ nEnv' = nEnv + 1
    /\ UNCHANGED <<objs, _parsedFiles, tasks, reads, cleared, nUpdates, nClears, nGets, docVars>>

(***************************************************************************)
(* search, distinctTags, hydrateCache up to their first await.             *)
(***************************************************************************)
search(cw) ==
    /\ Len(tasks) < MaxTasks
    /\ LET isTag == cw.type = Tag
           \* line 260 assigns ContextWordType.WikiLink to contextWord.type and tests it
           cw1 == IF isTag THEN cw ELSE [cw EXCEPT !.type = WikiLink]
           proceeds == isTag \/ TruthyType(cw1.type)
           t == NewTask("search", TRUE, cw1, cw, cleared, Idle)
       IN  tasks' = Append(notAlone(tasks),
                           IF proceeds THEN t ELSE [t EXCEPT !.pc = "resolved", !.result = NoResult])
    /\ UNCHANGED <<disk, objs, _parsedFiles, reads, cleared, nEnv, nUpdates, nClears, nGets, docVars>>

distinctTags ==
    /\ Len(tasks) < MaxTasks
    /\ tasks' = Append(notAlone(tasks),
                       NewTask("distinctTags", TRUE, NoContextWord, NoContextWord, cleared, Idle))
    /\ UNCHANGED <<disk, objs, _parsedFiles, reads, cleared, nEnv, nUpdates, nClears, nGets, docVars>>

hydrateCache ==
    /\ Len(tasks) < MaxTasks
    /\ tasks' = Append(unquiet(notAlone(tasks), Paths),
                       NewTask("hydrateCache", FALSE, NoContextWord, NoContextWord, {}, Idle))
    /\ cleared' = {}
    /\ UNCHANGED <<disk, objs, _parsedFiles, reads, nEnv, nUpdates, nClears, nGets, docVars>>

(***************************************************************************)
(* parsedFilesForWorkspace, from the moment noteFiles() resolves to the    *)
(* await of Promise.all; when every readFile served its cache, Promise.all *)
(* resolves in the same turn and the call runs to its end.                 *)
(***************************************************************************)
indexOf(s, x) == CHOOSE i \in 1..Len(s) : s[i] = x

noteFilesResolves(n) ==
    /\ tasks[n].pc = "noteFiles"
    /\ LET t == tasks[n]
           files == noteFiles(disk)
           m == mapParsedFileFor([objs |-> objs, _parsedFiles |-> _parsedFiles], files)
           rf == [i \in 1..Len(files) |-> readFile(m.objs[m.pfs[i]], t.useCache)]
           heap == [o \in 1..Len(m.objs) |->
                       IF o \in Range(m.pfs) THEN rf[indexOf(m.pfs, o)].pf ELSE m.objs[o]]
           positions == [i \in 1..Len(files) |-> i]
           toRead == SelectSeq(positions, LAMBDA i: ~rf[i].cached)
           t1 == [t EXCEPT !.files = files, !.pfs = m.pfs, !.pending = Range(toRead),
                           !.settled = SelectSeq(positions, LAMBDA i: rf[i].cached),
                           !.got = [i \in 1..Len(files) |-> undefined],
                           !.pc = "reading"]
           fin == resolveTask(heap, t1)
       IN  /\ Len(m.objs) <= MaxObjs
           /\ Len(reads) + Len(toRead) <= MaxReads
           /\ _parsedFiles' = m._parsedFiles
           /\ reads' = reads \o [i \in 1..Len(toRead) |->
                                    [obj |-> m.pfs[toRead[i]], task |-> n, idx |-> toRead[i],
                                     fsPath |-> files[toRead[i]]]]
           /\ IF toRead = <<>>
              THEN objs' = fin.objs /\ tasks' = [tasks EXCEPT ![n] = fin.task]
              ELSE objs' = heap /\ tasks' = [tasks EXCEPT ![n] = t1]
    /\ UNCHANGED <<disk, cleared, nEnv, nUpdates, nClears, nGets, docVars>>

(***************************************************************************)
(* The callback of fs.readFile, for a read issued by a task.               *)
(***************************************************************************)
removeAt(s, k) == SubSeq(s, 1, k - 1) \o SubSeq(s, k + 1, Len(s))

taskReadSucceeds(k) ==
    /\ k \in 1..Len(reads)
    /\ reads[k].task # 0
    /\ disk[reads[k].fsPath] # Missing
    /\ LET r == reads[k]
           buffer == disk[r.fsPath]
           heap == [objs EXCEPT ![r.obj] = readFileCallback(@, buffer)]
           t1 == onReadSuccess(tasks[r.task], r.idx, buffer)
           fin == resolveTask(heap, t1)
       IN  IF t1.pc = "reading" /\ t1.pending = {}
           THEN objs' = fin.objs /\ tasks' = [tasks EXCEPT ![r.task] = fin.task]
           ELSE objs' = heap /\ tasks' = [tasks EXCEPT ![r.task] = t1]
    /\ reads' = removeAt(reads, k)
    /\ UNCHANGED <<disk, _parsedFiles, cleared, nEnv, nUpdates, nClears, nGets, docVars>>

taskReadFails(k) ==
    /\ k \in 1..Len(reads)
    /\ reads[k].task # 0
    /\ disk[reads[k].fsPath] = Missing
    /\ LET r == reads[k]
           t1 == onReadError(tasks[r.task], r.idx)
           fin == resolveTask(objs, t1)
       IN  IF t1.pc = "reading" /\ t1.pending = {}
           THEN objs' = fin.objs /\ tasks' = [tasks EXCEPT ![r.task] = fin.task]
           ELSE objs' = objs /\ tasks' = [tasks EXCEPT ![r.task] = t1]
    /\ reads' = removeAt(reads, k)
    /\ UNCHANGED <<disk, _parsedFiles, cleared, nEnv, nUpdates, nClears, nGets, docVars>>

(***************************************************************************)
(* updateCacheFor and the callback of its read; clearCacheFor;             *)
(* parsedFileFor called by itself.                                         *)
(***************************************************************************)
updateCacheFor(fsPath) ==
    /\ nUpdates < MaxUpdates
    /\ Len(reads) < MaxReads
    /\ LET m == parsedFileFor([objs |-> objs, _parsedFiles |-> _parsedFiles], fsPath)
           rf == readFile(m.objs[m.pf], FALSE)
       IN  /\ Len(m.objs) <= MaxObjs
           /\ objs' = [m.objs EXCEPT ![m.pf] = rf.pf]
           /\ _parsedFiles' = m._parsedFiles
           /\ reads' = Append(reads, [obj |-> m.pf, task |-> 0, idx |-> 0, fsPath |-> fsPath])
    /\ tasks' = unquiet(notAlone(tasks), {fsPath})
    /\ cleared' = cleared \ {fsPath}
    /\ nUpdates' = nUpdates + 1
    /\ UNCHANGED <<nClears, nGets, disk, nEnv, docVars>>

updateReadSucceeds_NoRegister(k) ==
    /\ k \in 1..Len(reads)
    /\ reads[k].task = 0
    /\ disk[reads[k].fsPath] # Missing
    /\ LET r == reads[k]
           _pf == parseData(readFileCallback(objs[r.obj], disk[r.fsPath]), FALSE)
       IN  objs' = [objs EXCEPT ![r.obj] = _pf]
    /\ reads' = removeAt(reads, k)
    /\ UNCHANGED <<disk, _parsedFiles, tasks, cleared, nEnv, nUpdates, nClears, nGets, docVars>>

\* the then of updateCacheFor: parseData(false), then the instance is set in the table
updateReadSucceeds(k) ==
    /\ k \in 1..Len(reads)
    /\ reads[k].task = 0
    /\ disk[reads[k].fsPath] # Missing
    /\ LET r == reads[k]
           _pf == parseData(readFileCallback(objs[r.obj], disk[r.fsPath]), FALSE)
       IN  /\ objs' = [objs EXCEPT ![r.obj] = _pf]
           /\ _parsedFiles' = [_parsedFiles EXCEPT ![r.fsPath] = r.obj]
    /\ reads' = removeAt(reads, k)
    /\ UNCHANGED <<disk, tasks, cleared, nEnv, nUpdates, nClears, nGets, docVars>>

updateReadFails(k) ==
    /\ k \in 1..Len(reads)
    /\ reads[k].task = 0
    /\ disk[reads[k].fsPath] = Missing
    /\ reads' = removeAt(reads, k)
    /\ UNCHANGED <<disk, objs, _parsedFiles, tasks, cleared, nEnv, nUpdates, nClears, nGets, docVars>>

clearCacheFor(fsPath) ==
    /\ nClears < MaxClears
    /\ _parsedFiles' = deleteEntry(_parsedFiles, fsPath)
    /\ tasks' = notAlone(tasks)
    /\ cleared' = cleared \cup {fsPath}
    /\ nClears' = nClears + 1
    /\ UNCHANGED <<nUpdates, nGets, disk, objs, reads, nEnv, docVars>>

parsedFileForCall(fsPath) ==
    /\ nGets < MaxGets
    /\ LET m == parsedFileFor([objs |-> objs, _parsedFiles |-> _parsedFiles], fsPath)
       IN  /\ Len(m.objs) <= MaxObjs
           /\ objs' = m.objs
           /\ _parsedFiles' = m._parsedFiles
    /\ tasks' = notAlone(tasks)
    /\ nGets' = nGets + 1
    /\ UNCHANGED <<nUpdates, nClears, disk, reads, cleared, nEnv, docVars>>

Next ==
    \/ \E p \in Paths, text \in FileTexts : WriteFile(p, text)
    \/ \E p \in Paths : DeleteFile(p)
    \/ \E cw \in SearchContextWords : search(cw)
    \/ distinctTags
    \/ hydrateCache
    \/ \E n \in 1..Len(tasks) : noteFilesResolves(n)
    \/ \E k \in 1..Len(reads) : taskReadSucceeds(k)
    \/ \E k \in 1..Len(reads) : taskReadFails(k)
    \/ \E p \in Paths : updateCacheFor(p)
    \/ \E k \in 1..Len(reads) : updateReadSucceeds(k)
    \/ \E k \in 1..Len(reads) : updateReadFails(k)
    \/ \E p \in Paths : clearCacheFor(p)

Spec == Init /\ [][Next]_vars

(***************************************************************************)
(* SpecLive: Spec under the assumption that the enumeration of every call  *)
(* and every issued read eventually complete.  The callbacks are run by    *)
(* the event loop, which serves every completed enumeration and read.      *)
(***************************************************************************)
readCompletes ==
    \E k \in 1..Len(reads) :
        \/ taskReadSucceeds(k)
        \/ taskReadFails(k)
        \/ updateReadSucceeds(k)
        \/ updateReadFails(k)

readFails ==
    \E k \in 1..Len(reads) : taskReadFails(k) \/ updateReadFails(k)

enumerationCompletes == \E n \in 1..Len(tasks) : noteFilesResolves(n)

\* ENABLED <<enumerationCompletes \/ readCompletes>>_vars as a state predicate:
\* a read is pending (its callback can run), or no read is pending and a call
\* awaits its enumeration
canComplete ==
    \/ reads # <<>>
    \/ \E n \in 1..Len(tasks) : tasks[n].pc = "noteFiles"

\* Weak fairness of the callbacks.  For the steps that run parseData the
\* condition WF_vars(enumerationCompletes \/ readCompletes) is written out,
\* with canComplete for the enabling condition.
Fairness ==
    /\ WF_vars(readFails)
    /\ (<>[]canComplete) => ([]<><<enumerationCompletes \/ readCompletes>>_vars)

\* the calls and the events that decide whether a call settles: files are
\* deleted (reads fail) but not rewritten, and one context word is searched
LiveContextWords == {ContextWord(Tag, "b")}

NextLive ==
    \/ \E p \in Paths : DeleteFile(p)
    \/ \E cw \in LiveContextWords : search(cw)
    \/ distinctTags
    \/ hydrateCache
    \/ enumerationCompletes
    \/ \E p \in Paths : updateCacheFor(p)
    \/ \E p \in Paths : clearCacheFor(p)
    \/ readCompletes

SpecLive == Init /\ [][NextLive]_vars /\ Fairness

(***************************************************************************)
(* SpecTable: the table alone, under parsedFileFor, updateCacheFor and     *)
(* clearCacheFor, with no search running.                                  *)
(***************************************************************************)
NextTable ==
    \/ \E p \in Paths, text \in FileTexts : WriteFile(p, text)
    \/ \E p \in Paths : DeleteFile(p)
    \/ \E p \in Paths : parsedFileForCall(p)
    \/ \E p \in Paths : updateCacheFor(p)
    \/ \E k \in 1..Len(reads) : updateReadSucceeds(k)
    \/ \E k \in 1..Len(reads) : updateReadFails(k)
    \/ \E p \in Paths : clearCacheFor(p)

SpecTable == Init /\ [][NextTable]_vars

(***************************************************************************)
(* SpecDoc: one ParsedFile built by ParsedFile.fromData and queried.       *)
(***************************************************************************)
DocTexts ==
    FileTexts \cup
    { <<"x", "#a", "#A", "[[n]]", "#a">>,
      <<"[[m]]", "#b", "\r\n", "\n", "#c", "[[n.md]]", "#b">>,
      <<"x">> }
DocWords == {"a", "A", "b", "n", "n.md", "#a"}
DocContextWords == {ContextWord(t, w) : t \in ContextWordType, w \in DocWords} \cup {NoContextWord}

docFromData(data) ==
    /\ doc' = fromData(data)
    /\ docQuery' = NoContextWord
    /\ docOut' = NoResult
    /\ docReads' = <<>>
    /\ UNCHANGED cacheVars

\* another operation has run on doc while these reads were pending
touched(rs) == [i \in 1..Len(rs) |-> [rs[i] EXCEPT !.alone = FALSE]]

docParseData(useCache) ==
    /\ doc # NoDoc
    /\ doc' = parseData(doc, useCache)
    /\ docQuery' = NoContextWord
    /\ docOut' = NoResult
    /\ docReads' = touched(docReads)
    /\ UNCHANGED cacheVars

docRawRangesForWord(contextWord) ==
    /\ doc # NoDoc
    /\ docQuery' = contextWord
    /\ docOut' = _rawRangesForWord(doc, contextWord)
    /\ UNCHANGED <<doc, docReads, cacheVars>>

docTagSet ==
    /\ doc # NoDoc
    /\ docQuery' = NoContextWord
    /\ docOut' = tagSet(doc)
    /\ UNCHANGED <<doc, docReads, cacheVars>>

NextDoc ==
    \/ \E data \in DocTexts : docFromData(data)
    \/ \E useCache \in BOOLEAN : docParseData(useCache)
    \/ \E cw \in DocContextWords : docRawRangesForWord(cw)
    \/ docTagSet

SpecDoc == Init /\ [][NextDoc]_vars

(***************************************************************************)
(* SpecLoad: one ParsedFile under readFile, the callbacks of its reads and *)
(* parseData, called in any order.  A pending read records                 *)
(*   before : the instance as it was when readFile was called              *)
(*   alone  : no other operation has run on the instance since             *)
(***************************************************************************)
LoadTexts ==
    { EmptyString,
      <<"#a", "#a", "#b">>,
      <<"[[n]]", "#a", "\n", "[[n.md]]", "#b">> }

Resolves == <<"resolved">>
Rejects == <<"rejected">>

\* new ParsedFile(fsPath)
docNew ==
    /\ doc' = ParsedFile(PathOrder[1])
    /\ docQuery' = NoContextWord
    /\ docOut' = NoResult
    /\ docReads' = <<>>
    /\ UNCHANGED cacheVars

\* readFile(useCache) up to the point where it returns its promise
docReadFile(useCache) ==
    /\ doc # NoDoc
    /\ LET rf == readFile(doc, useCache)
       IN  /\ doc' = rf.pf
           /\ IF rf.cached
              THEN docReads' = docReads /\ docOut' = Resolves
              ELSE /\ Len(docReads) < MaxDocReads
                   /\ docReads' = Append(touched(docReads), [before |-> doc, alone |-> TRUE])
                   /\ docOut' = NoResult
    /\ docQuery' = NoContextWord
    /\ UNCHANGED cacheVars

\* the callback of fs.readFile, without and with err
docReadSucceeds(k, buffer) ==
    /\ k \in 1..Len(docReads)
    /\ doc' = readFileCallback(doc, buffer)
    /\ docReads' = touched(removeAt(docReads, k))
    /\ docOut' = Resolves
    /\ docQuery' = NoContextWord
    /\ UNCHANGED cacheVars

docReadFails(k) ==
    /\ k \in 1..Len(docReads)
    /\ docReads' = removeAt(docReads, k)
    /\ docOut' = Rejects
    /\ docQuery' = NoContextWord
    /\ UNCHANGED <<doc, cacheVars>>

NextLoad ==
    \/ docNew
    \/ \E data \in LoadTexts : docFromData(data)
    \/ \E useCache \in BOOLEAN : docReadFile(useCache)
    \/ \E k \in 1..Len(docReads), buffer \in LoadTexts : docReadSucceeds(k, buffer)
    \/ \E k \in 1..Len(docReads) : docReadFails(k)
    \/ \E useCache \in BOOLEAN : docParseData(useCache)

SpecLoad == Init /\ [][NextLoad]_vars

(***************************************************************************)
(* Properties.                                                             *)
(***************************************************************************)
Searches == {n \in 1..Len(tasks) : tasks[n].op = "search"}
Resolved(n) == tasks[n].pc = "resolved"
urisOf(locations) == {locations[i].uri : i \in 1..Len(locations)}

\* C1 (as stated): a search started after clearCacheFor(path), with no
\* updateCacheFor(path) and no hydrateCache called since, resolves with no
\* location whose file is path, whether or not the workspace still lists path.
C1_NoHitsAfterClear ==
    \A n \in Searches :
        Resolved(n) => \A p \in tasks[n].quiet : p \notin urisOf(tasks[n].result)

\* C1 (amended): a search started after clearCacheFor(path), with no
\* updateCacheFor(path) and no hydrateCache called since, resolves with no
\* location whose file is path provided the enumeration it obtained does not
\* list path.
C1_NoHitsAfterClearUnlessListed ==
    \A n \in Searches :
        Resolved(n) =>
            \A p \in tasks[n].quiet :
                p \notin Range(tasks[n].files) => p \notin urisOf(tasks[n].result)

\* C1 witness: a resolved search that found something, started after the eviction
\* of a path it did not enumerate, while an instance of that path still holds
\* candidates matching the query.
C1_Witness ==
    \E n \in Searches :
        /\ Resolved(n)
        /\ tasks[n].result # <<>>
        /\ \E p \in tasks[n].quiet :
            /\ p \notin Range(tasks[n].files)
            /\ \E o \in 1..Len(objs) :
                /\ objs[o].fsPath = p
                /\ _rawRangesForWord(objs[o], tasks[n].contextWord) # <<>>

\* C2: a search called with a context word whose kind is neither Tag nor
\* WikiLink resolves with the empty list, whatever the files contain (a
\* rejection after a file was deleted under the search is not held against it
\* here).
C2_OtherKindResolvesEmpty ==
    \A n \in Searches :
        (tasks[n].arg.type \notin {Tag, WikiLink} /\ Resolved(n))
            => Len(tasks[n].result) = 0

\* C3: the locations a search resolves with are ordered by the position of
\* their file in the enumeration, and inside one file by position in the text
\* (the candidate order of one kind), whatever the order the reads completed in.
C3_ResultInEnumerationOrder ==
    \A n \in Searches :
        Resolved(n) =>
            LET t == tasks[n]
                r == t.result
            IN  \A i, j \in 1..Len(r) :
                    i < j =>
                        \/ indexOf(t.files, r[i].uri) < indexOf(t.files, r[j].uri)
                        \/ /\ r[i].uri = r[j].uri
                           /\ isBefore(r[i].range.start, r[j].range.start)

\* C3 witness: a search resolved with locations in two files whose reads
\* completed in the reverse of the enumeration order.
C3_Witness ==
    \E n \in Searches :
        /\ Resolved(n)
        /\ tasks[n].settled = <<2, 1>>
        /\ Cardinality(urisOf(tasks[n].result)) = 2

\* the raw texts of the Tag candidates of an instance
tagTexts(pf) ==
    {pf.refCandidates[i].rawText :
        i \in {j \in 1..Len(pf.refCandidates) : pf.refCandidates[j].contextWordType = Tag}}

\* C4: when distinctTags resolves, its list has no duplicate and its elements
\* are exactly the raw texts of the Tag candidates of the instances of all
\* enumerated files.
C4_DistinctTagsIsTheUnion ==
    [][\A n \in 1..Len(tasks) :
          (tasks[n].op = "distinctTags" /\ ~Resolved(n) /\ tasks'[n].pc = "resolved") =>
              LET t == tasks'[n]
                  r == t.result
              IN  /\ \A i, j \in 1..Len(r) : i # j => r[i] # r[j]
                  /\ Len(t.pfs) = Len(t.files)
                  /\ Range(r) = UNION {tagTexts(objs'[t.pfs[i]]) : i \in 1..Len(t.pfs)}]_vars

\* C4 witness: distinctTags resolved on the files "#a #a #b" and "#b #c" with a
\* list of size 3.
C4_Witness ==
    \E n \in 1..Len(tasks) :
        /\ tasks[n].op = "distinctTags"
        /\ Resolved(n)
        /\ tasks[n].got = <<(<<"#a", "#a", "#b">>), (<<"#b", "#c">>)>>
        /\ Len(tasks[n].result) = 3
        /\ Range(tasks[n].result) = {"#a", "#b", "#c"}

\* C5: on a document built by tokenizing its text, the range query for a Tag
\* context word w returns, in candidate order, exactly the ranges of the Tag
\* candidates whose rawText is "#" followed by w.
C5_TagRangesExact ==
    (docQuery # NoContextWord /\ docQuery.type = Tag) =>
        LET want == SelectSeq(doc.refCandidates,
                              LAMBDA c: c.contextWordType = Tag /\ c.rawText = "#" \o docQuery.word)
        IN  docOut = [i \in 1..Len(want) |-> want[i].range]

\* C5 witness: a Tag query answered with two ranges on a document that also
\* holds a tag differing in case only and a wiki-link.
C5_Witness ==
    /\ docQuery # NoContextWord
    /\ docQuery.type = Tag
    /\ Len(docOut) = 2
    /\ \E i \in 1..Len(doc.refCandidates) : doc.refCandidates[i].contextWordType = WikiLink
    /\ \E i \in 1..Len(doc.refCandidates) : doc.refCandidates[i].rawText = "#A"
    /\ docQuery.word = "a"

\* C6: a search or distinctTags one of whose reads failed is rejected and
\* delivers no list; one that resolved had no failed read and every enumerated
\* file's load settled.
C6_CompleteOrRejected ==
    \A n \in 1..Len(tasks) :
        tasks[n].op \in {"search", "distinctTags"} =>
            LET t == tasks[n]
            IN  /\ t.failed # {} => (t.pc = "rejected" /\ Len(t.result) = 0)
                /\ t.pc = "resolved" =>
                       /\ t.failed = {}
                       /\ Len(t.pfs) = Len(t.files)
                       /\ Range(t.settled) = 1..Len(t.files)

\* C6 witness: a search or distinctTags over two files rejected after the read
\* of one file failed and the read of the other succeeded.
C6_Witness ==
    \E n \in 1..Len(tasks) :
        /\ tasks[n].op \in {"search", "distinctTags"}
        /\ tasks[n].pc = "rejected"
        /\ Len(tasks[n].files) = 2
        /\ Cardinality(tasks[n].failed) = 1
        /\ \E i \in 1..2 : tasks[n].got[i] # undefined

\* C7: after hydrateCache resolved with no other call in flight or made since,
\* every enumerated file has a table entry whose data is the text this call
\* read and whose candidates are the tokenization of that text.
C7_HydrateRebuildsEveryEntry ==
    \A n \in 1..Len(tasks) :
        (tasks[n].op = "hydrateCache" /\ Resolved(n) /\ tasks[n].alone) =>
            \A i \in 1..Len(tasks[n].files) :
                LET e == _parsedFiles[tasks[n].files[i]]
                    text == tasks[n].got[i]
                IN  /\ e # NoEntry
                    /\ text # undefined
                    /\ objs[e].data = text
                    /\ objs[e].refCandidates = tokenize(text)

\* C8: updateCacheFor(path) returns with its read still pending; when that read
\* succeeds with no other read of path pending, the table entry of path holds
\* the text read and the tokenization of that text, with parsedFlag true
\* (required here only where the text is not empty).
C8_UpdateRefreshesEntry ==
    [][/\ \A p \in Paths :
              updateCacheFor(p) =>
                  \E k \in 1..Len(reads') : reads'[k].task = 0 /\ reads'[k].fsPath = p
       /\ \A k \in 1..Len(reads) :
              (/\ updateReadSucceeds(k)
               /\ \A j \in 1..Len(reads) : j # k => reads[j].fsPath # reads[k].fsPath) =>
                  LET p == reads[k].fsPath
                      e == _parsedFiles'[p]
                  IN  /\ e # NoEntry
                      /\ objs'[e].data = disk[p]
                      /\ objs'[e].refCandidates = tokenize(disk[p])
                      /\ disk[p] # EmptyString => objs'[e]._parsed]_vars

\* C9: clearCacheFor(path) leaves no entry for path, whether or not there was
\* one, and changes no other entry and no instance.
C9_ClearRemovesOnlyThatEntry ==
    [][\A p \in Paths :
          clearCacheFor(p) =>
              /\ _parsedFiles'[p] = NoEntry
              /\ \A q \in Paths \ {p} : _parsedFiles'[q] = _parsedFiles[q]
              /\ _parsedFiles[p] = NoEntry => _parsedFiles' = _parsedFiles
              /\ objs' = objs]_vars

\* C9 witness: a path was evicted (its instance is no longer registered) while
\* the entry of the other path, with loaded data, is still in the table.
C9_Witness ==
    \E p \in Paths :
        /\ nClears = 1
        /\ _parsedFiles[p] = NoEntry
        /\ \E o \in 1..Len(objs) : objs[o].fsPath = p
        /\ \E q \in Paths \ {p} :
            /\ _parsedFiles[q] # NoEntry
            /\ Truthy(objs[_parsedFiles[q]].data)

\* C10: parsedFileFor(path) returns the entry of path unchanged when there is
\* one, and otherwise registers and returns a new instance with no data, no
\* candidates and parsedFlag false; the entries of other paths and all existing
\* instances are unchanged, and a second call returns the same entry.
C10_GetOrCreate ==
    [][\A p \in Paths :
          parsedFileForCall(p) =>
              LET e == _parsedFiles[p]
                  e2 == _parsedFiles'[p]
                  again == parsedFileFor([objs |-> objs', _parsedFiles |-> _parsedFiles'], p)
              IN  /\ e # NoEntry => (e2 = e /\ objs' = objs)
                  /\ e = NoEntry =>
                         /\ e2 = Len(objs) + 1
                         /\ Len(objs') = Len(objs) + 1
                         /\ objs'[e2] = [fsPath |-> p, data |-> undefined,
                                         refCandidates |-> <<>>, _parsed |-> FALSE]
                  /\ \A o \in 1..Len(objs) : objs'[o] = objs[o]
                  /\ \A q \in Paths \ {p} : _parsedFiles'[q] = _parsedFiles[q]
                  /\ again.pf = e2
                  /\ again.objs = objs'
                  /\ again._parsedFiles = _parsedFiles']_vars

\* C10 witness: two calls of parsedFileFor, the first of which created the one
\* instance there is and the second of which found it.
C10_Witness ==
    /\ nGets = 2
    /\ nUpdates = 0
    /\ nClears = 0
    /\ Len(objs) = 1
    /\ objs[1] = ParsedFile(objs[1].fsPath)

\* C11: in every reachable state, whatever the interleaving of the calls and of
\* the read completions, an instance whose parsedFlag is true has candidates
\* equal to the tokenization of its current data.
C11_ParsedImpliesTokenized ==
    \A o \in 1..Len(objs) :
        objs[o]._parsed => objs[o].refCandidates = tokenize(objs[o].data)

\* C12: when parseData runs on an instance whose loaded data is the empty
\* string, also one that held other text before and was read again, the
\* instance is left with no candidate, an empty tag set and no range for any
\* context word.
C12_EmptyDataNoCandidates ==
    [][\A useCache \in BOOLEAN :
          (docParseData(useCache) /\ doc.data = EmptyString) =>
              /\ Len(doc'.refCandidates) = 0
              /\ Len(tagSet(doc')) = 0
              /\ \A cw \in DocContextWords : Len(_rawRangesForWord(doc', cw)) = 0]_vars

\* C13: readFile(true) on an instance whose data is not undefined, the empty
\* string included, issues no read, resolves at once and leaves data,
\* candidates and parsedFlag as they were.
C13_CachedReadIsNoOp ==
    [][(docReadFile(TRUE) /\ doc.data # undefined) =>
          /\ docReads' = docReads
          /\ docOut' = Resolves
          /\ doc' = doc]_vars

\* C14 (as stated): when a read issued by readFile fails, the promise is
\* rejected, data and candidates are what they were before the readFile call,
\* and parsedFlag is false.
C14_FailedReadRestores ==
    [][\A k \in 1..Len(docReads) :
          docReadFails(k) =>
              /\ docOut' = Rejects
              /\ doc'.data = docReads[k].before.data
              /\ doc'.refCandidates = docReads[k].before.refCandidates
              /\ ~doc'._parsed]_vars

\* C14 (amended): the failure rejects the promise and changes nothing in the
\* instance; data and candidates are what they were before the readFile call
\* and parsedFlag is false when no other readFile, read completion or parseData
\* ran on the instance between the call and the failure.
C14_FailedReadAloneRestores ==
    [][\A k \in 1..Len(docReads) :
          docReadFails(k) =>
              /\ docOut' = Rejects
              /\ doc' = doc
              /\ docReads[k].alone =>
                     /\ doc'.data = docReads[k].before.data
                     /\ doc'.refCandidates = docReads[k].before.refCandidates
                     /\ ~doc'._parsed]_vars

\* C14 witness: the last pending read of a tokenized instance has failed; the
\* instance still has its text and candidates, with parsedFlag false.
C14_Witness ==
    /\ docOut = Rejects
    /\ docReads = <<>>
    /\ Truthy(doc.data)
    /\ doc.refCandidates = tokenize(doc.data)
    /\ Len(doc.refCandidates) > 0
    /\ ~doc._parsed

\* C15: parseData(true) on an instance whose parsedFlag is true changes
\* nothing; any other parseData of loaded non-empty data leaves exactly the
\* tokenization of the data as candidates, whatever the candidates were; and
\* after a parseData that tokenized, a second parseData with either argument
\* changes neither the candidates nor parsedFlag.
C15_ParseDataIdempotent ==
    [][\A useCache \in BOOLEAN :
          docParseData(useCache) =>
              /\ (useCache /\ doc._parsed) => doc' = doc
              /\ (Truthy(doc.data) /\ ~(useCache /\ doc._parsed)) =>
                     /\ doc'.refCandidates = tokenize(doc.data)
                     /\ doc'._parsed
              /\ ~(useCache /\ doc._parsed) =>
                     \A again \in BOOLEAN : parseData(doc', again) = doc']_vars

\* C15 witness: an instance whose file was read has been tokenized; it has
\* candidates, two of them with the same text, and parsedFlag true.
C15_Witness ==
    /\ doc.fsPath = PathOrder[1]
    /\ docOut = NoResult
    /\ docReads = <<>>
    /\ doc._parsed
    /\ doc.refCandidates = tokenize(doc.data)
    /\ \E i, j \in 1..Len(doc.refCandidates) :
           i # j /\ doc.refCandidates[i].rawText = doc.refCandidates[j].rawText

\* C16: every instance moves Unloaded -> Loaded-Unparsed -> Loaded-Parsed.  In
\* every step: an instance is created with no data and parsedFlag false; data
\* changes only when a read of the instance calls back, to the text read, and so
\* never back to undefined; parsedFlag turns true only in a step that runs
\* parseData on the instance, and then its data is loaded and non-empty and its
\* candidates are the tokenization of it; parsedFlag turns false only in a step
\* that issues a read of the instance; candidates change only where parseData
\* runs; parsedFileFor, clearCacheFor and the calls of search, distinctTags and
\* hydrateCache up to their first await change no instance.
C16_DocumentStateMachine ==
    [][/\ Len(objs') >= Len(objs)
       /\ \A o \in (Len(objs) + 1)..Len(objs') :
              /\ objs'[o].data = undefined
              /\ objs'[o].refCandidates = <<>>
              /\ ~objs'[o]._parsed
       /\ \A o \in 1..Len(objs) :
              LET pf == objs[o]
                  pf2 == objs'[o]
                  issued == \E k \in (Len(reads) + 1)..Len(reads') : reads'[k].obj = o
                  calledBack == \E k \in 1..Len(reads) :
                                    /\ reads[k].obj = o
                                    /\ reads' = removeAt(reads, k)
                                    /\ disk[reads[k].fsPath] # Missing
                                    /\ pf2.data = disk[reads[k].fsPath]
                  parsed == \/ \E k \in 1..Len(reads) : updateReadSucceeds(k) /\ reads[k].obj = o
                            \/ \E n \in 1..Len(tasks) :
                                   /\ InFlight(tasks[n])
                                   /\ Resolved(n)'
                                   /\ o \in Range(tasks'[n].pfs)
              IN  /\ pf2.fsPath = pf.fsPath
                  /\ pf.data # undefined => pf2.data # undefined
                  /\ pf2.data # pf.data => calledBack
                  /\ (~pf._parsed /\ pf2._parsed) =>
                         /\ parsed
                         /\ Truthy(pf2.data)
                         /\ pf2.refCandidates = tokenize(pf2.data)
                  /\ (pf._parsed /\ ~pf2._parsed) => issued
                  /\ pf2.refCandidates # pf.refCandidates => parsed
       /\ \A p \in Paths :
              LET m == parsedFileFor([objs |-> objs, _parsedFiles |-> _parsedFiles], p)
              IN  \A o \in 1..Len(objs) : m.objs[o] = objs[o]
       /\ (\/ \E p \in Paths : clearCacheFor(p)
           \/ \E cw \in SearchContextWords : search(cw)
           \/ distinctTags
           \/ hydrateCache) => objs' = objs]_vars

\* C16 witness: one instance is Loaded-Parsed while another, parsed before, is
\* being read again: it has its text and candidates, parsedFlag false and a
\* read pending.
C16_Witness ==
    \E o, o2 \in 1..Len(objs) :
        /\ Truthy(objs[o].data)
        /\ ~objs[o]._parsed
        /\ Len(objs[o].refCandidates) > 0
        /\ \E k \in 1..Len(reads) : reads[k].obj = o
        /\ Truthy(objs[o2].data)
        /\ objs[o2]._parsed

\* C17: when the enumeration of every call and every issued read eventually
\* complete, every call of search, distinctTags and hydrateCache eventually
\* settles: it is resolved with its result or rejected.
C17_EveryCallSettles ==
    \A n \in 1..MaxTasks :
        (n <= Len(tasks)) ~> (n <= Len(tasks) /\ ~InFlight(tasks[n]))

\* C17 witness: with an updateCacheFor and a clearCacheFor call made among
\* them, one call has resolved and another has been rejected, and no read is
\* pending.
C17_Witness ==
    /\ reads = <<>>
    /\ nUpdates > 0
    /\ nClears > 0
    /\ \E n, m \in 1..Len(tasks) : tasks[n].pc = "resolved" /\ tasks[m].pc = "rejected"

\* C18 (as stated): when the read of an updateCacheFor(path) completes and
\* path has no entry, because clearCacheFor(path) ran while the read was
\* pending, the completion does not put an entry for path into the table.
C18_CompletionKeepsEvicted ==
    [][\A k \in 1..Len(reads) :
          ((updateReadSucceeds(k) \/ updateReadFails(k))
              /\ _parsedFiles[reads[k].fsPath] = NoEntry) =>
                  _parsedFiles'[reads[k].fsPath] = NoEntry]_vars

\* C18 (amended): when the read of an updateCacheFor(path) succeeds, the
\* instance that call had obtained, now holding the text read, is the entry of
\* path, also when path was evicted in between; the entries of other paths are
\* unchanged.  When the read fails the table is unchanged.
C18_CompletionRegistersAgain ==
    [][\A k \in 1..Len(reads) :
          /\ updateReadSucceeds(k) =>
                 /\ _parsedFiles'[reads[k].fsPath] = reads[k].obj
                 /\ objs'[reads[k].obj].fsPath = reads[k].fsPath
                 /\ objs'[reads[k].obj].data = disk[reads[k].fsPath]
                 /\ \A q \in Paths \ {reads[k].fsPath} : _parsedFiles'[q] = _parsedFiles[q]
          /\ updateReadFails(k) => _parsedFiles' = _parsedFiles]_vars

\* C18 witness: path was evicted after updateCacheFor(path) was called, no
\* parsedFileFor call was made, the read has completed, and path has an entry.
C18_Witness ==
    \E p \in Paths :
        /\ p \in cleared
        /\ nUpdates > 0
        /\ nGets = 0
        /\ reads = <<>>
        /\ _parsedFiles[p] # NoEntry
        /\ objs[_parsedFiles[p]].data = disk[p]

\* C19: search leaves the context word object of its caller as it was passed:
\* after the call its kind, word, hasExtension and range are those it had
\* before, for every kind of context word.
C19_ContextWordUnchanged ==
    \A n \in Searches :
        /\ tasks[n].contextWord.type = tasks[n].arg.type
        /\ tasks[n].contextWord.word = tasks[n].arg.word
        /\ tasks[n].contextWord.hasExtension = tasks[n].arg.hasExtension
        /\ tasks[n].contextWord.range = tasks[n].arg.range

====
